---- MODULE Spec2Model ----
(***************************************************************************)
(* Model of backend/data_manager.py (DataManager: the cyclic series store, *)
(* the session accumulator, the manual ledger, the budget / water limit)   *)
(* and of backend/core.py: CostCalculator.calculate_cost, the allocation   *)
(* solver, Optimizer.calculate_strategy, and the tips of a report with     *)
(* their RecommendationHistory.  SpecConcurrent runs advance_simulation    *)
(* and get_current_simulation_tick statement by statement, as the thread   *)
(* pool behind the endpoints of backend/main.py can interleave them.       *)
(*                                                                         *)
(* Units.  Litres are integers.  Money is counted in millionths of a TL,   *)
(* so that UNIT_PRICE_DAY = 0.089705 TL/L is the integer 89705 and every   *)
(* cost is exact.  Quotients that the code computes in floating point      *)
(* (budget / price, limit / 720, total / 24) are kept as exact fractions   *)
(* [num, den].  A timestamp is reduced to what the code reads from it: its *)
(* hour of day (and, for the re-stamped window of a tick, its date).       *)
(***************************************************************************)
EXTENDS Integers, Sequences, FiniteSets, TLC

\* ------------------------------------------------------------------ bounds
MaxLen == 3            \* short series: every series of length 0..MaxLen
MaxUsage == 1          \* usage_liters of a sample of a short series: 0..MaxUsage
MaxHours == 7          \* largest `hours` handed to advance_simulation
MaxCycle == 3          \* largest `target_hours` handed to complete_current_period
MaxSessionHours == 8   \* session_hours is capped here (start_new_period re-opens)
MaxCostUsage == 6      \* largest usage_liters handed to calculate_cost on its own

\* ------------------------------------------------------- program constants
UNIT_PRICE_DAY == 89705
UNIT_PRICE_NIGHT == UNIT_PRICE_DAY * 2
NIGHT_START == 22
NIGHT_END == 4
WINDOW_SIZE == 24
DEFAULT_PERIOD == 672

\* ------------------------------------------------------------------- state
VARIABLES
    full_data,              \* the series: a sequence of [usage_liters, hour]
    stream_index,           \* the cursor
    session_system_usage,
    session_system_cost,
    session_hours,
    manual_entries,         \* date string -> [total, night]
    budget,
    monthly_water_limit,    \* fraction [num, den]
    reference_usage,        \* fraction [num, den]
    manual_recommendations_cache,   \* [present, report]
    manual_entries_hash,
    history,                \* recommendation_history.json: context -> tip ids
    reports,                \* how many reports have picked tips so far
    frames,                 \* request-serving thread -> the locals of its call
    call,                   \* the last operation and its argument
    old,                    \* the program state that operation started from
    ret                     \* what it returned or raised

prog == <<full_data, stream_index, session_system_usage, session_system_cost,
          session_hours, manual_entries, budget, monthly_water_limit,
          reference_usage, manual_recommendations_cache, manual_entries_hash>>
vars == <<full_data, stream_index, session_system_usage, session_system_cost,
          session_hours, manual_entries, budget, monthly_water_limit,
          reference_usage, manual_recommendations_cache, manual_entries_hash,
          history, reports, frames, call, old, ret>>
\* what no DataManager method assigns when served on its own: the locals of
\* the serving threads and the history file, which only the tip picker of
\* the report generators writes (SpecTips)
apart == <<history, reports, frames>>

\* ----------------------------------------------------------------- helpers
Frac(n, d) == [num |-> n, den |-> d]
FracEq(a, b) == a.num * b.den = b.num * a.den

\* exact arithmetic on fractions (denominators positive, results in lowest
\* terms, factors cancelled before they are multiplied)
RECURSIVE GCD(_, _)
GCD(a, b) == IF b = 0 THEN a ELSE GCD(b, a % b)
Lowest(f) == Frac(f.num \div GCD(f.num, f.den), f.den \div GCD(f.num, f.den))
FracMul(a, b) ==
    LET g1 == GCD(a.num, b.den)
        g2 == GCD(b.num, a.den)
    IN IF a.num = 0 \/ b.num = 0
       THEN Frac(0, 1)
       ELSE Frac((a.num \div g1) * (b.num \div g2),
                 (a.den \div g2) * (b.den \div g1))
\* a / b for b > 0
FracDiv(a, b) == FracMul(a, Frac(b.den, b.num))
FracAdd(a, b) ==
    LET g == GCD(a.den, b.den)
    IN Lowest(Frac(a.num * (b.den \div g) + b.num * (a.den \div g),
                   (a.den \div g) * b.den))
FracSub(a, b) == FracAdd(a, Frac(0 - b.num, b.den))
FracLeq(a, b) ==
    a.num * (b.den \div GCD(a.den, b.den)) <= b.num * (a.den \div GCD(a.den, b.den))
FracLt(a, b) == ~FracLeq(b, a)
FracMax(a, b) == IF FracLeq(a, b) THEN b ELSE a
FracMin(a, b) == IF FracLeq(a, b) THEN a ELSE b
Zero == Frac(0, 1)

\* round(x, ndigits), as the set of results it can give, counted
\* in units of 10^-ndigits.  Off a tie it is the nearest unit.  A tie that a
\* double holds exactly (its denominator a power of two) goes to the even
\* neighbour.  Any other tie is not the value the double holds, which lies
\* on one side of it or the other: both neighbours are kept.
RECURSIVE IsPow2(_)
IsPow2(n) == n = 1 \/ (n % 2 = 0 /\ IsPow2(n \div 2))
Pow10(ndigits) == IF ndigits = 1 THEN 10 ELSE 100
Round(x, ndigits) ==
    LET scaled == FracMul(x, Frac(Pow10(ndigits), 1))
        q == scaled.num \div scaled.den
        r == scaled.num % scaled.den
    IN IF 2 * r < scaled.den THEN {Frac(q, Pow10(ndigits))}
       ELSE IF 2 * r > scaled.den THEN {Frac(q + 1, Pow10(ndigits))}
       ELSE IF IsPow2(Lowest(x).den)
            THEN {Frac(q + (q % 2), Pow10(ndigits))}
            ELSE {Frac(q, Pow10(ndigits)), Frac(q + 1, Pow10(ndigits))}

\* What a call hands back.  Values are tagged by kind, arguments are named, so
\* that the records of two different calls are always comparable.
NoneValue == [none |-> TRUE]
Returned(v) == [raised |-> "", value |-> v]
Raised(e) == [raised |-> e, value |-> NoneValue]
Called(op, arg) == [op |-> op, arg |-> arg]

\* _compute_manual_hash: md5 of the canonical JSON text of the ledger; two
\* ledgers hash alike exactly when they are equal (md5 taken collision-free)
compute_manual_hash(entries) == entries

NoCache == [present |-> FALSE]

Snapshot ==
    [stream_index |-> stream_index,
     session_system_usage |-> session_system_usage,
     session_system_cost |-> session_system_cost,
     session_hours |-> session_hours,
     manual_entries |-> manual_entries,
     budget |-> budget,
     monthly_water_limit |-> monthly_water_limit,
     reference_usage |-> reference_usage,
     history |-> history]

\* df.iloc[a:b] on positions 0..Len(df)
Iloc(df, a, b) == SubSeq(df, a + 1, b)

\* (mutant) the night tariff still applies at hour NIGHT_END
calculate_cost_through_end(usage_liters, hour) ==
    LET price == IF hour >= NIGHT_START \/ hour <= NIGHT_END
                 THEN UNIT_PRICE_NIGHT
                 ELSE UNIT_PRICE_DAY
    IN usage_liters * price

\* CostCalculator.calculate_cost
calculate_cost(usage_liters, hour) ==
    LET price == IF hour >= NIGHT_START \/ hour < NIGHT_END
                 THEN UNIT_PRICE_NIGHT
                 ELSE UNIT_PRICE_DAY
    IN usage_liters * price

\* the accumulation loop of advance_simulation over the rows it selected
RECURSIVE SkippedUsage(_)
SkippedUsage(rows) ==
    IF rows = <<>> THEN 0
    ELSE Head(rows).usage_liters + SkippedUsage(Tail(rows))

RECURSIVE SkippedCost(_)
SkippedCost(rows) ==
    IF rows = <<>> THEN 0
    ELSE calculate_cost(Head(rows).usage_liters, Head(rows).hour)
         + SkippedCost(Tail(rows))

\* (mutant) the cursor stops at the end of the series instead of wrapping
TargetIdxClamped(current_idx, hours, num_rows) ==
    IF current_idx + hours >= num_rows THEN num_rows ELSE current_idx + hours

\* (mutant) the cursor is counted from the start of the series
TargetIdxFromStart(current_idx, hours, num_rows) == hours % num_rows

\* target_idx = (current_idx + hours) % num_rows
TargetIdx(current_idx, hours, num_rows) == (current_idx + hours) % num_rows

\* (mutant) on a wrap only the rows up to the end of the series are taken
CombinedNoHead(df, current_idx, target_idx) ==
    IF target_idx < current_idx
    THEN Iloc(df, current_idx, Len(df))
    ELSE Iloc(df, current_idx, target_idx)

\* the rows advance_simulation selects between the two cursors
Combined(df, current_idx, target_idx) ==
    IF target_idx < current_idx
    THEN Iloc(df, current_idx, Len(df)) \o Iloc(df, 0, target_idx)
    ELSE Iloc(df, current_idx, target_idx)

\* ------------------------------------------------------------ initial state
\* RecommendationHistory.state with no history file yet
NoHistory == [system |-> <<>>, manual |-> <<>>]

\* the threads of the pool that serves the (synchronous) endpoints
Threads == {1, 2}
NoNow == [day |-> 0, hour |-> 0]
\* the locals of a thread that serves no request; `served` counts the hours
\* of the advances and ticks it has completed
IdleFrame(served) ==
    [pc |-> "idle", op |-> "", hours |-> 0, target_idx |-> 0,
     skipped_usage |-> 0, skipped_cost |-> 0, loaded |-> 0, now |-> NoNow,
     served |-> served]

Sample(u, h) == [usage_liters |-> u, hour |-> h]

\* the CSV holds one row per hour, sorted by timestamp: hours of day run on
HourAt(start, i) == (start + i) % 24

ShortStartHours == {2, 21}
ShortSeries ==
    UNION { { [i \in 1..n |-> Sample(u[i], HourAt(s, i - 1))] :
                u \in [1..n -> 0..MaxUsage], s \in ShortStartHours } :
            n \in 0..MaxLen }

LongLens == {WINDOW_SIZE, WINDOW_SIZE + 2}
LongUsage(i) == IF i % 5 = 0 THEN 2 ELSE IF i % 2 = 0 THEN 1 ELSE 0
LongSeries == { [i \in 1..n |-> Sample(LongUsage(i - 1), HourAt(0, i - 1))] :
                n \in LongLens }

NoEntries == [d \in {} |-> 0]

InitStore(df, entries) ==
    /\ full_data = df
    /\ budget = 500
    /\ reference_usage = Frac(4167, 100)
    /\ monthly_water_limit = Frac(30000, 1)
    /\ manual_entries = entries
    /\ manual_recommendations_cache = NoCache
    /\ manual_entries_hash = compute_manual_hash(entries)
    /\ stream_index = 0
    /\ session_system_usage = 0
    /\ session_system_cost = 0
    /\ session_hours = 0
    /\ call = Called("init", NoneValue)
    /\ ret = Returned(NoneValue)
    /\ old = [stream_index |-> 0,
              session_system_usage |-> 0,
              session_system_cost |-> 0,
              session_hours |-> 0,
              manual_entries |-> entries,
              budget |-> 500,
              monthly_water_limit |-> Frac(30000, 1),
              reference_usage |-> Frac(4167, 100),
              history |-> NoHistory]
    /\ history = NoHistory
    /\ reports = 0
    /\ frames = [t \in Threads |-> IdleFrame(0)]

Init == \E df \in ShortSeries \cup LongSeries : InitStore(df, NoEntries)

\* --------------------------------------------------------------- operations
\* what advance_simulation does to the cursor and the session
AdvanceRaises == Len(full_data) = 0      \* (current_idx + hours) % 0

\* (mutant) the session is overwritten with the skipped interval, not added to
AdvanceBodyAssign(hours) ==
    IF AdvanceRaises
    THEN UNCHANGED <<stream_index, session_system_usage, session_system_cost,
                     session_hours>>
    ELSE LET num_rows == Len(full_data)
             current_idx == stream_index
             target_idx == TargetIdx(current_idx, hours, num_rows)
             combined == Combined(full_data, current_idx, target_idx)
         IN /\ session_system_usage' = SkippedUsage(combined)
            /\ session_system_cost' = SkippedCost(combined)
            /\ session_hours' = hours
            /\ stream_index' = target_idx

AdvanceBody(hours) ==
    IF AdvanceRaises
    THEN UNCHANGED <<stream_index, session_system_usage, session_system_cost,
                     session_hours>>
    ELSE LET num_rows == Len(full_data)
             current_idx == stream_index
             target_idx == TargetIdx(current_idx, hours, num_rows)
             combined == Combined(full_data, current_idx, target_idx)
         IN /\ session_system_usage' = session_system_usage + SkippedUsage(combined)
            /\ session_system_cost' = session_system_cost + SkippedCost(combined)
            /\ session_hours' = session_hours + hours
            /\ stream_index' = target_idx

advance_simulation(hours) ==
    /\ AdvanceBody(hours)
    /\ ret' = IF AdvanceRaises THEN Raised("ZeroDivisionError") ELSE Returned(NoneValue)
    /\ call' = Called("advance_simulation", [hours |-> hours])
    /\ old' = Snapshot
    /\ UNCHANGED apart
    /\ UNCHANGED <<full_data, manual_entries, budget, monthly_water_limit,
                   reference_usage, manual_recommendations_cache,
                   manual_entries_hash>>

\* (mutant) on a wrap the head of the series is put before its tail
WindowHeadFirst(df, end_idx, hours) ==
    LET num_rows == Len(df)
    IN IF hours >= num_rows
       THEN Iloc(df, 0, num_rows)
       ELSE IF end_idx >= hours
            THEN Iloc(df, end_idx - hours, end_idx)
            ELSE LET remaining == hours - end_idx
                 IN Iloc(df, 0, end_idx) \o Iloc(df, num_rows - remaining, num_rows)

\* get_simulation_window: the rows it returns, given the cursor
Window(df, end_idx, hours) ==
    LET num_rows == Len(df)
    IN IF hours >= num_rows
       THEN Iloc(df, 0, num_rows)                 \* full_data.copy()
       ELSE IF end_idx >= hours
            THEN Iloc(df, end_idx - hours, end_idx)
            ELSE LET remaining == hours - end_idx
                 IN Iloc(df, num_rows - remaining, num_rows) \o Iloc(df, 0, end_idx)

\* (mutant) reading the window also moves the cursor past it
get_simulation_window_consuming(hours) ==
    /\ ret' = Returned([rows |-> Window(full_data, stream_index, hours)])
    /\ call' = Called("get_simulation_window", [hours |-> hours])
    /\ old' = Snapshot
    /\ UNCHANGED apart
    /\ stream_index' = IF Len(full_data) = 0 THEN stream_index
                       ELSE TargetIdx(stream_index, hours, Len(full_data))
    /\ UNCHANGED <<full_data, session_system_usage, session_system_cost,
                   session_hours, manual_entries, budget, monthly_water_limit,
                   reference_usage, manual_recommendations_cache,
                   manual_entries_hash>>

get_simulation_window(hours) ==
    /\ ret' = Returned([rows |-> Window(full_data, stream_index, hours)])
    /\ call' = Called("get_simulation_window", [hours |-> hours])
    /\ old' = Snapshot
    /\ UNCHANGED apart
    /\ UNCHANGED prog

\* (mutant) at a cycle boundary nothing is left to advance
RemainingNoFullCycle(hours_elapsed, target_hours) ==
    IF hours_elapsed = 0
    THEN target_hours
    ELSE LET remainder == hours_elapsed % target_hours
         IN IF remainder = 0 THEN 0 ELSE target_hours - remainder

\* (mutant) the hours left are reduced modulo the cycle, so a boundary gives 0
RemainingWrapped(hours_elapsed, target_hours) ==
    (target_hours - (hours_elapsed % target_hours)) % target_hours

\* complete_current_period: the hours left to the end of the cycle
Remaining(hours_elapsed, target_hours) ==
    IF hours_elapsed = 0
    THEN target_hours
    ELSE LET remainder == hours_elapsed % target_hours
         IN IF remainder = 0 THEN target_hours ELSE target_hours - remainder

complete_current_period(target_hours) ==
    /\ AdvanceBody(Remaining(session_hours, target_hours))
    /\ ret' = IF AdvanceRaises
              THEN Raised("ZeroDivisionError")
              ELSE Returned([int |-> Remaining(session_hours, target_hours)])
    /\ call' = Called("complete_current_period", [target_hours |-> target_hours])
    /\ old' = Snapshot
    /\ UNCHANGED apart
    /\ UNCHANGED <<full_data, manual_entries, budget, monthly_water_limit,
                   reference_usage, manual_recommendations_cache,
                   manual_entries_hash>>

\* (mutant) a new period also empties the manual ledger
start_new_period_clearing ==
    /\ session_system_usage' = 0
    /\ session_system_cost' = 0
    /\ session_hours' = 0
    /\ manual_entries' = NoEntries
    /\ manual_entries_hash' = compute_manual_hash(NoEntries)
    /\ manual_recommendations_cache' = NoCache
    /\ ret' = Returned(NoneValue)
    /\ call' = Called("start_new_period", NoneValue)
    /\ old' = Snapshot
    /\ UNCHANGED apart
    /\ UNCHANGED <<full_data, stream_index, budget, monthly_water_limit,
                   reference_usage>>

start_new_period ==
    /\ session_system_usage' = 0
    /\ session_system_cost' = 0
    /\ session_hours' = 0
    /\ ret' = Returned(NoneValue)
    /\ call' = Called("start_new_period", NoneValue)
    /\ old' = Snapshot
    /\ UNCHANGED apart
    /\ UNCHANGED <<full_data, stream_index, manual_entries, budget,
                   monthly_water_limit, reference_usage,
                   manual_recommendations_cache, manual_entries_hash>>

\* ---- get_current_simulation_tick
\* the 24 rows it takes once the cursor has moved to `start`
TickRows(df, start) ==
    LET total_len == Len(df)
        end == start + WINDOW_SIZE
    IN IF end < total_len
       THEN Iloc(df, start, end)
       ELSE Iloc(df, start, total_len) \o Iloc(df, 0, end - total_len)

\* the calendar dates a re-stamped window can show: now's and the day before
DateKeys == <<"2024-03-01", "2024-03-02">>
NowSet == { [day |-> 2, hour |-> h] : h \in {3, 12} }

\* timestamps[i] = now - timedelta(hours = window_size - i - 1), i = 0..23
Timestamp(now, i) ==
    LET h == now.hour - (WINDOW_SIZE - i - 1)
    IN IF h >= 0
       THEN [day |-> now.day, hour |-> h]
       ELSE [day |-> now.day - 1, hour |-> h + 24]

\* get_manual(ts): that date's manual total spread over 24 hours
get_manual(entries, ts) ==
    LET date_key == DateKeys[ts.day]
    IN IF date_key \notin DOMAIN entries
       THEN Frac(0, 1)
       ELSE Frac(entries[date_key].total, 24)

\* the window as returned: usage kept, timestamp rewritten, manual_usage added
Stamped(rows, now, entries) ==
    [i \in 1..Len(rows) |->
        LET ts == Timestamp(now, i - 1)
        IN [usage_liters |-> rows[i].usage_liters,
            hour |-> ts.hour,
            date |-> DateKeys[ts.day],
            manual_usage |-> get_manual(entries, ts)]]

\* self.stream_index = (self.stream_index + 1) % total_len
TickIndex(idx, total_len) == (idx + 1) % total_len

\* the window a tick returns from cursor idx (before the move)
TickWindow(df, idx, now, entries) ==
    Stamped(TickRows(df, TickIndex(idx, Len(df))), now, entries)

\* latest_point = window.iloc[-1]
LatestPoint(window) == window[Len(window)]

get_current_simulation_tick(now) ==
    /\ call' = Called("get_current_simulation_tick", [now |-> now])
    /\ old' = Snapshot
    /\ UNCHANGED apart
    /\ UNCHANGED <<full_data, manual_entries, budget, monthly_water_limit,
                   reference_usage, manual_recommendations_cache,
                   manual_entries_hash>>
    /\ IF Len(full_data) < WINDOW_SIZE
       THEN \* returns the bare list of records, no cycle flag
            /\ ret' = Returned([pair |-> FALSE,
                                records |-> Iloc(full_data, 0, Len(full_data))])
            /\ UNCHANGED <<stream_index, session_system_usage,
                           session_system_cost, session_hours>>
       ELSE /\ stream_index' = TickIndex(stream_index, Len(full_data))
            /\ session_system_usage' =
                    session_system_usage
                    + LatestPoint(TickWindow(full_data, stream_index, now,
                                             manual_entries)).usage_liters
            /\ session_system_cost' =
                    session_system_cost
                    + calculate_cost(
                        LatestPoint(TickWindow(full_data, stream_index, now,
                                               manual_entries)).usage_liters,
                        LatestPoint(TickWindow(full_data, stream_index, now,
                                               manual_entries)).hour)
            /\ session_hours' = session_hours + 1  \* each tick = 1 hour
            /\ ret' = Returned(
                    [pair |-> TRUE,
                     records |-> TickWindow(full_data, stream_index, now,
                                            manual_entries),
                     is_cycle_end |->
                        (TickIndex(stream_index, Len(full_data))
                            = Len(full_data) - 1)])

\* ---- manual ledger, budget and water limit
\* the date strings offered to the ledger
DateStrings == {"2024-03-01", "2024-03-02", "2024-3-1", "2024-02-30", "01-03-2024"}

\* the text of a date string, as its runs of digits between the "-" signs:
\* how many digits each run has and the number they spell
Run(digits, value) == [digits |-> digits, value |-> value]
Fields(date_str) ==
    CASE date_str = "2024-03-01" -> <<Run(4, 2024), Run(2, 3), Run(2, 1)>>
      [] date_str = "2024-03-02" -> <<Run(4, 2024), Run(2, 3), Run(2, 2)>>
      [] date_str = "2024-3-1"   -> <<Run(4, 2024), Run(1, 3), Run(1, 1)>>
      [] date_str = "2024-02-30" -> <<Run(4, 2024), Run(2, 2), Run(2, 30)>>
      [] date_str = "01-03-2024" -> <<Run(2, 1), Run(2, 3), Run(4, 2024)>>

\* calendar.monthrange, as the datetime constructor applies it
IsLeap(year) == year % 4 = 0 /\ (year % 100 # 0 \/ year % 400 = 0)
DaysInMonth(year, month) ==
    IF month = 2 THEN (IF IsLeap(year) THEN 29 ELSE 28)
    ELSE IF month \in {4, 6, 9, 11} THEN 30 ELSE 31

\* datetime.strptime(date_str, "%Y-%m-%d"): %Y is four digits, %m and %d are
\* one or two digits (1..12, 1..31); then the date has to exist
MatchesFormat(date_str) ==
    LET f == Fields(date_str)
    IN /\ Len(f) = 3
       /\ f[1].digits = 4
       /\ f[2].digits \in {1, 2} /\ f[2].value \in 1..12
       /\ f[3].digits \in {1, 2} /\ f[3].value \in 1..31

ParsesAsDate(date_str) ==
    /\ MatchesFormat(date_str)
    /\ Fields(date_str)[1].value >= 1
    /\ Fields(date_str)[3].value
          <= DaysInMonth(Fields(date_str)[1].value, Fields(date_str)[2].value)

\* the calendar date strptime returns for a string it accepts
Strptime(date_str) ==
    [year |-> Fields(date_str)[1].value,
     month |-> Fields(date_str)[2].value,
     day |-> Fields(date_str)[3].value]

\* date.strftime("%Y-%m-%d"): the zero-padded text of a calendar date
Strftime(date) ==
    CHOOSE s \in DateStrings :
        Fields(s) = <<Run(4, date.year), Run(2, date.month), Run(2, date.day)>>

\* _save_manual_entries: (the file write, then) re-hash and drop the cache
SaveManualEntries ==
    /\ manual_entries_hash' = compute_manual_hash(manual_entries')
    /\ manual_recommendations_cache' = NoCache

\* (mutant) the entry is stored before the date is validated
add_manual_entry_store_first(date_str, amount, night_amount) ==
    /\ call' = Called("add_manual_entry",
                      [date_str |-> date_str, amount |-> amount,
                       night_amount |-> night_amount])
    /\ old' = Snapshot
    /\ UNCHANGED apart
    /\ UNCHANGED <<full_data, stream_index, session_system_usage,
                   session_system_cost, session_hours, budget,
                   monthly_water_limit, reference_usage>>
    /\ manual_entries' =
          [d \in DOMAIN manual_entries \cup {date_str} |->
              IF d = date_str
              THEN [total |-> amount, night |-> night_amount]
              ELSE manual_entries[d]]
    /\ SaveManualEntries
    /\ ret' = IF ParsesAsDate(date_str)
              THEN Returned(NoneValue)
              ELSE Raised("ValueError")

add_manual_entry(date_str, amount, night_amount) ==
    /\ call' = Called("add_manual_entry",
                      [date_str |-> date_str, amount |-> amount,
                       night_amount |-> night_amount])
    /\ old' = Snapshot
    /\ UNCHANGED apart
    /\ UNCHANGED <<full_data, stream_index, session_system_usage,
                   session_system_cost, session_hours, budget,
                   monthly_water_limit, reference_usage>>
    /\ IF ~ParsesAsDate(date_str)
       THEN /\ ret' = Raised("ValueError")
            /\ UNCHANGED <<manual_entries, manual_recommendations_cache,
                           manual_entries_hash>>
       ELSE /\ manual_entries' =
                 [d \in DOMAIN manual_entries \cup {date_str} |->
                     IF d = date_str
                     THEN [total |-> amount, night |-> night_amount]
                     ELSE manual_entries[d]]
            /\ SaveManualEntries
            /\ ret' = Returned(NoneValue)

\* (mutant) deleting a stored date empties the whole ledger
delete_manual_entry_clear(date_str) ==
    /\ call' = Called("delete_manual_entry", [date_str |-> date_str])
    /\ old' = Snapshot
    /\ UNCHANGED apart
    /\ UNCHANGED <<full_data, stream_index, session_system_usage,
                   session_system_cost, session_hours, budget,
                   monthly_water_limit, reference_usage>>
    /\ IF date_str \in DOMAIN manual_entries
       THEN /\ manual_entries' = NoEntries
            /\ SaveManualEntries
            /\ ret' = Returned([bool |-> TRUE])
       ELSE /\ ret' = Returned([bool |-> FALSE])
            /\ UNCHANGED <<manual_entries, manual_recommendations_cache,
                           manual_entries_hash>>

delete_manual_entry(date_str) ==
    /\ call' = Called("delete_manual_entry", [date_str |-> date_str])
    /\ old' = Snapshot
    /\ UNCHANGED apart
    /\ UNCHANGED <<full_data, stream_index, session_system_usage,
                   session_system_cost, session_hours, budget,
                   monthly_water_limit, reference_usage>>
    /\ IF date_str \in DOMAIN manual_entries
       THEN /\ manual_entries' =
                 [d \in DOMAIN manual_entries \ {date_str} |-> manual_entries[d]]
            /\ SaveManualEntries
            /\ ret' = Returned([bool |-> TRUE])
       ELSE /\ ret' = Returned([bool |-> FALSE])
            /\ UNCHANGED <<manual_entries, manual_recommendations_cache,
                           manual_entries_hash>>

\* budget / UNIT_PRICE_DAY, the budget in TL and the price in 1e-6 TL per litre
LimitForBudget(amount) == Frac(amount * 1000000, UNIT_PRICE_DAY)
\* monthly_water_limit / (30.0 * 24.0)
HourlyReference(limit) == Frac(limit.num, limit.den * (30 * 24))

set_budget(amount) ==
    /\ budget' = amount
    /\ monthly_water_limit' = LimitForBudget(amount)
    /\ reference_usage' = HourlyReference(LimitForBudget(amount))
    /\ manual_recommendations_cache' = NoCache      \* invalidate_manual_cache
    /\ ret' = Returned(NoneValue)
    /\ call' = Called("set_budget", [amount |-> amount])
    /\ old' = Snapshot
    /\ UNCHANGED apart
    /\ UNCHANGED <<full_data, stream_index, session_system_usage,
                   session_system_cost, session_hours, manual_entries,
                   manual_entries_hash>>

\* (mutant) setting the limit also derives the budget from it (whole TL)
set_water_limit_coupled(amount) ==
    /\ monthly_water_limit' = Frac(amount, 1)
    /\ reference_usage' = HourlyReference(Frac(amount, 1))
    /\ budget' = (amount * UNIT_PRICE_DAY) \div 1000000
    /\ ret' = Returned(NoneValue)
    /\ call' = Called("set_water_limit", [amount |-> amount])
    /\ old' = Snapshot
    /\ UNCHANGED apart
    /\ UNCHANGED <<full_data, stream_index, session_system_usage,
                   session_system_cost, session_hours, manual_entries,
                   manual_recommendations_cache, manual_entries_hash>>

set_water_limit(amount) ==
    /\ monthly_water_limit' = Frac(amount, 1)
    /\ reference_usage' = HourlyReference(Frac(amount, 1))
    /\ ret' = Returned(NoneValue)
    /\ call' = Called("set_water_limit", [amount |-> amount])
    /\ old' = Snapshot
    /\ UNCHANGED apart
    /\ UNCHANGED <<full_data, stream_index, session_system_usage,
                   session_system_cost, session_hours, manual_entries, budget,
                   manual_recommendations_cache, manual_entries_hash>>

\* Optimizer.generate_manual_ai_report, reduced to the inputs its text is
\* computed from: an empty ledger gives one fixed message, whatever the
\* budget and the limit
ManualReport(entries, budget_, limit) ==
    IF DOMAIN entries = {}
    THEN [entries |-> entries, budget |-> 0, water_limit |-> Zero]
    ELSE [entries |-> entries, budget |-> budget_, water_limit |-> limit]

get_cached_manual_recommendations ==
    LET current_hash == compute_manual_hash(manual_entries)
    IN /\ call' = Called("get_cached_manual_recommendations", NoneValue)
       /\ old' = Snapshot
       /\ UNCHANGED apart
       /\ UNCHANGED <<full_data, stream_index, session_system_usage,
                      session_system_cost, session_hours, manual_entries, budget,
                      monthly_water_limit, reference_usage>>
       /\ IF manual_recommendations_cache.present
             /\ current_hash = manual_entries_hash
          THEN /\ ret' = Returned(manual_recommendations_cache.report)
               /\ UNCHANGED <<manual_recommendations_cache, manual_entries_hash>>
          ELSE LET report == ManualReport(manual_entries, budget, monthly_water_limit)
               IN /\ manual_recommendations_cache' =
                        [present |-> TRUE, report |-> report]
                  /\ manual_entries_hash' = current_hash
                  /\ ret' = Returned(report)

\* calculate_period_stats: the monthly projection of the window it is handed,
\* (total_system_usage_window / window_hours) * 720.0, or 0.0 for no rows
SystemProjectedUsage(df) ==
    IF Len(df) > 0
    THEN FracMul(Frac(SkippedUsage(df), Len(df)), Frac(720, 1))
    ELSE Zero

SystemProjectedCost(df) ==
    IF Len(df) > 0
    THEN FracMul(Frac(SkippedCost(df), Len(df)), Frac(720, 1))
    ELSE Zero

\* ------------------------------------------------------------ specification
WindowHours == (0..MaxHours) \cup {WINDOW_SIZE, 168, DEFAULT_PERIOD}

Next ==
    \/ \E hours \in 0..MaxHours :
          /\ session_hours + hours <= MaxSessionHours
          /\ advance_simulation(hours)
    \/ \E target_hours \in 1..MaxCycle :
          /\ session_hours + Remaining(session_hours, target_hours) <= MaxSessionHours
          /\ complete_current_period(target_hours)
    \/ start_new_period
    \/ \E hours \in WindowHours : get_simulation_window(hours)
    \/ \E now \in NowSet :
          /\ session_hours + 1 <= MaxSessionHours
          /\ get_current_simulation_tick(now)

Spec == Init /\ [][Next]_vars

\* ---- the billing period of 672 hours, on the same series
MaxPeriodHours == 1344
PeriodSteps == {100, 572}

NextPeriod ==
    \/ /\ session_hours + Remaining(session_hours, DEFAULT_PERIOD) <= MaxPeriodHours
       /\ complete_current_period(DEFAULT_PERIOD)
    \/ \E hours \in PeriodSteps :
          /\ session_hours + hours <= MaxPeriodHours
          /\ advance_simulation(hours)
    \/ start_new_period

SpecPeriod == Init /\ [][NextPeriod]_vars

\* ---- the store: ledger, budget and limit, next to a running session
MaxStoreHours == 2
StoreSeries == <<Sample(1, 21), Sample(2, 22), Sample(0, 23)>>
ManualInputs == { <<100, 20>>, <<50, 20>>, <<50, 80>> }   \* <<amount, night_amount>>
Budgets == {300, 500}
WaterLimits == {20000}

InitStoreSpec == InitStore(StoreSeries, NoEntries)

NextStore ==
    \/ \E date_str \in DateStrings, input \in ManualInputs :
          add_manual_entry(date_str, input[1], input[2])
    \/ \E date_str \in DateStrings : delete_manual_entry(date_str)
    \/ \E amount \in Budgets : set_budget(amount)
    \/ \E amount \in WaterLimits : set_water_limit(amount)
    \/ get_cached_manual_recommendations
    \/ start_new_period
    \/ \E hours \in 1..MaxStoreHours :
          /\ session_hours + hours <= MaxStoreHours
          /\ advance_simulation(hours)

SpecStore == InitStoreSpec /\ [][NextStore]_vars

\* ---- the tariff, called on its own next to a store whose state changes
CallCalculateCost(usage_liters, hour) ==
    /\ ret' = Returned([float |-> calculate_cost(usage_liters, hour)])
    /\ call' = Called("calculate_cost",
                      [usage_liters |-> usage_liters, hour |-> hour])
    /\ old' = Snapshot
    /\ UNCHANGED apart
    /\ UNCHANGED prog

NextCost ==
    \/ \E usage_liters \in 0..MaxCostUsage, hour \in 0..23 :
          CallCalculateCost(usage_liters, hour)
    \/ \E amount \in Budgets : set_budget(amount)
    \/ \E hours \in 1..MaxStoreHours :
          /\ session_hours + hours <= MaxStoreHours
          /\ advance_simulation(hours)

SpecCost == InitStoreSpec /\ [][NextCost]_vars

\* ---- solve_daily_water_optimization (litres and TL as exact fractions)
\* (mutant) the budget is never consulted: the whole limit goes to daytime
AllocationCapOnly(daily_water_limit, daily_budget, day_price, night_price) ==
    LET L == FracMax(Zero, daily_water_limit)
    IN IF FracLeq(day_price, Zero)
       THEN [x1 |-> Zero, x2 |-> Zero, cost |-> Zero]
       ELSE [x1 |-> L, x2 |-> Zero, cost |-> FracMul(L, day_price)]

\* x1, x2 and cost as the function has them just before it rounds
Allocation(daily_water_limit, daily_budget, day_price, night_price) ==
    LET L == FracMax(Zero, daily_water_limit)
        B == FracMax(Zero, daily_budget)
        cd == day_price
        cn == night_price
    IN IF FracLeq(cn, cd)
       THEN LET x1 == FracMin(L, IF FracLt(Zero, cd) THEN FracDiv(B, cd) ELSE Zero)
            IN [x1 |-> x1, x2 |-> Zero, cost |-> FracMul(x1, cd)]
       ELSE IF FracLeq(cd, Zero)
            THEN [x1 |-> Zero, x2 |-> Zero, cost |-> Zero]
            ELSE IF FracLeq(FracMul(cd, L), B)
                 THEN [x1 |-> L, x2 |-> Zero, cost |-> FracMul(L, cd)]
                 ELSE [x1 |-> FracDiv(B, cd), x2 |-> Zero,
                       cost |-> FracMul(FracDiv(B, cd), cd)]

solve_daily_water_optimization(daily_water_limit, daily_budget, day_price, night_price) ==
    /\ \E x_day \in Round(Allocation(daily_water_limit, daily_budget,
                                      day_price, night_price).x1, 1),
          x_night \in Round(Allocation(daily_water_limit, daily_budget,
                                        day_price, night_price).x2, 1),
          min_cost \in Round(Allocation(daily_water_limit, daily_budget,
                                         day_price, night_price).cost, 2) :
          ret' = Returned([x_day |-> x_day, x_night |-> x_night,
                           min_cost |-> min_cost])
    /\ call' = Called("solve_daily_water_optimization",
                      [daily_water_limit |-> daily_water_limit,
                       daily_budget |-> daily_budget,
                       day_price |-> day_price,
                       night_price |-> night_price])
    /\ old' = Snapshot
    /\ UNCHANGED apart
    /\ UNCHANGED prog

\* the arguments tried: litres per day, TL per day, <<day, night>> TL per litre
SolverLimits == {Frac(0 - 5, 1), Zero, Frac(3, 50), Frac(1, 4), Frac(1000, 1)}
SolverBudgets == {Frac(0 - 3, 1), Zero, Frac(10, 1), Frac(50, 3), Frac(45, 1),
                  Frac(150, 1)}
SolverPrices ==
    { <<Frac(9, 100), Frac(18, 100)>>,
      <<Frac(17941, 200000), Frac(17941, 100000)>>,
      <<Frac(9, 100), Frac(1, 20)>>,
      <<Zero, Frac(18, 100)>>,
      <<Frac(0 - 9, 100), Frac(18, 100)>>,
      <<Zero, Zero>>,
      <<Frac(0 - 1, 10), Frac(0 - 1, 5)>> }

NextSolver ==
    \E daily_water_limit \in SolverLimits, daily_budget \in SolverBudgets,
       prices \in SolverPrices :
        solve_daily_water_optimization(daily_water_limit, daily_budget,
                                       prices[1], prices[2])

SpecSolver == InitStoreSpec /\ [][NextSolver]_vars

\* ---- Optimizer.calculate_strategy (litres, TL and days as exact fractions)
\* d.get(key, default) on a stats dict
Get(d, key, default) == IF key \in DOMAIN d THEN d[key] ELSE default
One == Frac(1, 1)
Hundred == Frac(100, 1)

\* usage_proj and cost_proj: the alias key first, then the legacy key, then 0
ProjectedUsage(stats) ==
    Get(stats, "usage_projection", Get(stats, "projection", Zero))
ProjectedCost(stats) ==
    Get(stats, "cost_projection", Get(stats, "projected_cost", Zero))

\* proj / limit if limit > 0 else 1.0
Ratio(proj, limit) == IF FracLt(Zero, limit) THEN FracDiv(proj, limit) ELSE One

\* (mutant) the smaller of the two ratios drives the score
StrategyScoreMin(system_stats, manual_stats, budget_, water_limit) ==
    LET usage_ratio == Ratio(FracAdd(ProjectedUsage(system_stats),
                                     ProjectedUsage(manual_stats)), water_limit)
        cost_ratio == Ratio(FracAdd(ProjectedCost(system_stats),
                                    ProjectedCost(manual_stats)), budget_)
    IN FracSub(Hundred,
               FracMul(FracSub(FracMin(usage_ratio, cost_ratio), One), Hundred))

\* score = 100.0 - (max(usage_ratio, cost_ratio) - 1.0) * 100.0
StrategyScore(system_stats, manual_stats, budget_, water_limit) ==
    LET usage_ratio == Ratio(FracAdd(ProjectedUsage(system_stats),
                                     ProjectedUsage(manual_stats)), water_limit)
        cost_ratio == Ratio(FracAdd(ProjectedCost(system_stats),
                                    ProjectedCost(manual_stats)), budget_)
    IN FracSub(Hundred,
               FracMul(FracSub(FracMax(usage_ratio, cost_ratio), One), Hundred))

\* (mutant) each threshold is reached by the score equal to it
StrategyStatusInclusive(score) ==
    IF FracLeq(Frac(95, 1), score) THEN "Mukemmel"
    ELSE IF FracLeq(Frac(80, 1), score) THEN "Dengeli"
    ELSE IF FracLeq(Frac(50, 1), score) THEN "Dikkatli Olmali"
    ELSE "Kritik Esik"

\* the status labels, in ASCII: Mükemmel, Dengeli, Dikkatli Olmalı, Kritik Eşik
StrategyStatus(score) ==
    IF FracLt(Frac(95, 1), score) THEN "Mukemmel"
    ELSE IF FracLt(Frac(80, 1), score) THEN "Dengeli"
    ELSE IF FracLt(Frac(50, 1), score) THEN "Dikkatli Olmali"
    ELSE "Kritik Esik"

\* max(0.0, rem / float(days_remaining)) if days_remaining > 0 else 0.0
DailyTarget(rem, days_remaining) ==
    IF FracLt(Zero, days_remaining)
    THEN FracMax(Zero, FracDiv(rem, days_remaining))
    ELSE Zero

calculate_strategy(system_stats, manual_stats, budget_, water_limit, reference_usage_, days_remaining) ==
    /\ \E daily_water_target \in
             Round(DailyTarget(
                     FracSub(water_limit,
                             FracAdd(Get(system_stats, "total_usage", Zero),
                                     Get(manual_stats, "total_usage", Zero))),
                     days_remaining), 1),
          daily_budget_target \in
             Round(DailyTarget(
                     FracSub(budget_,
                             FracAdd(Get(system_stats, "total_cost", Zero),
                                     Get(manual_stats, "total_cost", Zero))),
                     days_remaining), 2),
          potential_savings \in
             Round(FracMul(FracAdd(Get(system_stats, "night_usage", Zero),
                                   Get(manual_stats, "total_night_usage", Zero)),
                           Frac(UNIT_PRICE_NIGHT - UNIT_PRICE_DAY, 1000000)), 2),
          score \in
             Round(FracMax(Zero,
                           FracMin(Hundred,
                                   StrategyScore(system_stats, manual_stats,
                                                 budget_, water_limit))), 1),
          days \in Round(days_remaining, 1) :
          ret' = Returned(
                   [daily_water_target |-> daily_water_target,
                    daily_budget_target |-> daily_budget_target,
                    potential_savings |-> potential_savings,
                    status |-> StrategyStatus(
                                 StrategyScore(system_stats, manual_stats,
                                               budget_, water_limit)),
                    score |-> score,
                    days_remaining |-> days])
    /\ call' = Called("calculate_strategy",
                      [system_stats |-> system_stats,
                       manual_stats |-> manual_stats,
                       budget |-> budget_,
                       water_limit |-> water_limit,
                       reference_usage |-> reference_usage_,
                       days_remaining |-> days_remaining])
    /\ old' = Snapshot
    /\ UNCHANGED apart
    /\ UNCHANGED prog

\* the arguments tried
StrategyUsageProjections == {0, 8000, 10000, 12000, 12346, 16000, 25000}
StrategyCostProjections == {400, 600}
StrategySystemStats ==
    { [total_usage |-> Frac(4000, 1), total_cost |-> Frac(360, 1),
       night_usage |-> Frac(120, 1),
       usage_projection |-> Frac(u, 1), cost_projection |-> Frac(c, 1),
       projection |-> Zero, projected_cost |-> Zero] :
         u \in StrategyUsageProjections, c \in StrategyCostProjections }
    \cup
    { [total_usage |-> Frac(4000, 1), total_cost |-> Frac(360, 1),
       night_usage |-> Frac(120, 1),
       projection |-> Frac(u, 1), projected_cost |-> Frac(c, 1)] :
         u \in StrategyUsageProjections, c \in StrategyCostProjections }
StrategyManualStats ==
    { [total_usage |-> Zero],
      [total_usage |-> Frac(500, 1), total_cost |-> Frac(45, 1),
       total_night_usage |-> Frac(100, 1),
       usage_projection |-> Frac(1000, 1), cost_projection |-> Frac(90, 1)] }
StrategyBudgets == {Zero, Frac(500, 1)}
StrategyWaterLimits == {Zero, Frac(10000, 1)}
StrategyDays == {Zero, Frac(295, 10)}

NextStrategy ==
    \E system_stats \in StrategySystemStats,
       manual_stats \in StrategyManualStats,
       budget_ \in StrategyBudgets,
       water_limit \in StrategyWaterLimits,
       days_remaining \in StrategyDays :
        calculate_strategy(system_stats, manual_stats, budget_, water_limit,
                           Frac(4167, 100), days_remaining)

SpecStrategy == InitStoreSpec /\ [][NextStrategy]_vars

\* ---- Optimizer._pick_diverse_tips and the RecommendationHistory
MaxReports == 8        \* reports generated in one run of the program
POOL_SIZE == 6         \* tips per category of ADVICE_POOLS
MAX_KEEP == 14         \* RecommendationHistory(max_keep=14)
PICK_K == 2            \* k=2 at both call sites

Range(seq) == { seq[i] : i \in 1..Len(seq) }

\* ADVICE_POOLS[cat]: a tip text is named by its category and its place in
\* the pool; the 30 texts are pairwise different, also once stripped and
\* lower-cased
ADVICE_POOLS(cat) == [i \in 1..POOL_SIZE |-> [pool |-> cat, nr |-> i]]

\* RecommendationHistory.tip_id: "tip:" + str(text).strip().lower()
tip_id(text) == [tip |-> text]

\* (mutant) only the tips of the latest report count as recently used
recently_used_latest(state, context) ==
    Range(SubSeq(state[context], 1, IF Len(state[context]) < PICK_K
                                    THEN Len(state[context]) ELSE PICK_K))

\* RecommendationHistory.recently_used
recently_used(state, context) == Range(state[context])

\* RecommendationHistory.add_used (and save): the state it leaves in the file
add_used(state, context, tips) ==
    LET ids == [i \in 1..Len(tips) |-> tip_id(tips[i])]
        new_list == ids \o SelectSeq(state[context], LAMBDA x : x \notin Range(ids))
    IN [state EXCEPT ![context] =
            SubSeq(new_list, 1, IF Len(new_list) < MAX_KEEP
                                THEN Len(new_list) ELSE MAX_KEEP)]

\* candidates: every (cat, tip) of the categories, in category order
RECURSIVE Candidates(_)
Candidates(categories) ==
    IF categories = <<>> THEN <<>>
    ELSE [i \in 1..POOL_SIZE |->
             [cat |-> Head(categories), tip |-> ADVICE_POOLS(Head(categories))[i]]]
         \o Candidates(Tail(categories))

\* random.Random(seed).shuffle(candidates): the seed fixes one permutation of
\* the list; here place j takes the element (stride * j + seed) mod n, the
\* stride (7, 11 or 13) having no factor in common with n = 24 or 30
Stride(seed) == <<7, 11, 13>>[(seed % 3) + 1]
Shuffle(candidates, seed) ==
    [j \in 1..Len(candidates) |->
        candidates[((Stride(seed) * (j - 1) + seed) % Len(candidates)) + 1]]

\* one pass over the shuffled candidates: a tip is taken unless its id is in
\* `used` or already chosen, until k are chosen
RECURSIVE Pass(_, _, _, _)
Pass(candidates, used, chosen, k) ==
    IF candidates = <<>> THEN chosen
    ELSE LET tip == Head(candidates).tip
             tid == tip_id(tip)
         IN IF tid \in used \/ tid \in { tip_id(chosen[i]) : i \in 1..Len(chosen) }
            THEN Pass(Tail(candidates), used, chosen, k)
            ELSE IF Len(chosen) + 1 >= k
                 THEN Append(chosen, tip)
                 ELSE Pass(Tail(candidates), used, Append(chosen, tip), k)

\* pass 1 avoids the recent history, pass 2 (if pass 1 chose fewer than k)
\* allows repeats
Chosen(candidates, used, k) ==
    LET pass1 == Pass(candidates, used, <<>>, k)
    IN IF Len(pass1) < k THEN Pass(candidates, {}, pass1, k) ELSE pass1

pick_diverse_tips(categories, seed, context, k) ==
    LET used == recently_used(history, context)
        candidates == Shuffle(Candidates(categories), seed)
        chosen == Chosen(candidates, used, k)
    IN /\ history' = add_used(history, context, chosen)
       /\ reports' = reports + 1
       /\ ret' = Returned([tips |-> chosen])
       /\ call' = Called("_pick_diverse_tips",
                         [categories |-> categories, seed |-> seed,
                          context |-> context, k |-> k])
       /\ old' = Snapshot
       /\ UNCHANGED <<prog, frames>>

\* the categories the two report generators ask for; "garden" is added when
\* the usage is over the limit (system) or over the weekly target (manual)
ReportCategories(context, over) ==
    (IF context = "system"
     THEN <<"general", "shower", "dishwasher", "laundry">>
     ELSE <<"general", "laundry", "dishwasher", "shower">>)
    \o (IF over THEN <<"garden">> ELSE <<>>)

\* the data behind a report: the seed it yields and whether it is over target
ReportCases == { [seed |-> 0, over |-> FALSE], [seed |-> 4, over |-> TRUE],
                 [seed |-> 5, over |-> FALSE] }

NextTips ==
    \E context \in {"system", "manual"}, case \in ReportCases :
        /\ reports < MaxReports
        /\ pick_diverse_tips(ReportCategories(context, case.over), case.seed, context, PICK_K)

SpecTips == InitStoreSpec /\ [][NextTips]_vars

\* ---- the endpoints served by a pool of threads, no lock around the store:
\* ---- advance_simulation and get_current_simulation_tick statement by statement
MaxServedHours == 3    \* hours of all the advances and ticks requested
ConcurrentHours == {1, 2}
ConcurrentSeries == [i \in 1..WINDOW_SIZE |-> Sample(LongUsage(i - 1), HourAt(0, i - 1))]
InitConcurrent == InitStore(ConcurrentSeries, NoEntries)

ServedHours == frames[1].served + frames[2].served
PendingHours == frames[1].hours + frames[2].hours
At(t, pc) == frames[t].pc = pc
\* thread t goes on to pc, its locals changed as in `locals`
Goto(t, pc, locals) ==
    frames' = [frames EXCEPT ![t] =
                 [f \in DOMAIN frames[t] |->
                    IF f = "pc" THEN pc
                    ELSE IF f \in DOMAIN locals THEN locals[f] ELSE frames[t][f]]]
Return(t) ==
    frames' = [frames EXCEPT ![t] = IdleFrame(frames[t].served + frames[t].hours)]

\* advance_simulation up to the end of its loop: reads the cursor, sums the rows
advance_simulation_read(t, hours) ==
    /\ At(t, "idle")
    /\ call' = Called("advance_simulation", [hours |-> hours])
    /\ old' = Snapshot
    /\ IF AdvanceRaises
       THEN /\ ret' = Raised("ZeroDivisionError")
            /\ UNCHANGED frames
       ELSE LET num_rows == Len(full_data)
                current_idx == stream_index
                target_idx == TargetIdx(current_idx, hours, num_rows)
                combined == Combined(full_data, current_idx, target_idx)
            IN /\ Goto(t, "usage_load",
                       [op |-> "advance", hours |-> hours, target_idx |-> target_idx,
                        skipped_usage |-> SkippedUsage(combined),
                        skipped_cost |-> SkippedCost(combined)])
               /\ UNCHANGED ret
    /\ UNCHANGED <<prog, history, reports>>

\* self.session_system_usage += ... : the read of the field, then its write
session_usage_load(t) ==
    /\ At(t, "usage_load")
    /\ Goto(t, "usage_store", [loaded |-> session_system_usage])
    /\ UNCHANGED <<prog, history, reports, call, old, ret>>

session_usage_store(t) ==
    /\ At(t, "usage_store")
    /\ session_system_usage' = frames[t].loaded + frames[t].skipped_usage
    /\ Goto(t, "cost_load", [loaded |-> 0])
    /\ UNCHANGED <<full_data, stream_index, session_system_cost, session_hours,
                   manual_entries, budget, monthly_water_limit, reference_usage,
                   manual_recommendations_cache, manual_entries_hash,
                   history, reports, call, old, ret>>

\* self.session_system_cost += ...
session_cost_load(t) ==
    /\ At(t, "cost_load")
    /\ Goto(t, "cost_store", [loaded |-> session_system_cost])
    /\ UNCHANGED <<prog, history, reports, call, old, ret>>

session_cost_store(t) ==
    /\ At(t, "cost_store")
    /\ session_system_cost' = frames[t].loaded + frames[t].skipped_cost
    /\ Goto(t, "hours_load", [loaded |-> 0])
    /\ UNCHANGED <<full_data, stream_index, session_system_usage, session_hours,
                   manual_entries, budget, monthly_water_limit, reference_usage,
                   manual_recommendations_cache, manual_entries_hash,
                   history, reports, call, old, ret>>

\* self.session_hours += hours (advance) or += 1 (tick)
session_hours_load(t) ==
    /\ At(t, "hours_load")
    /\ Goto(t, "hours_store", [loaded |-> session_hours])
    /\ UNCHANGED <<prog, history, reports, call, old, ret>>

session_hours_store(t) ==
    /\ At(t, "hours_store")
    /\ session_hours' = frames[t].loaded + frames[t].hours
    /\ Goto(t, IF frames[t].op = "advance" THEN "cursor_write" ELSE "tick_return",
            [loaded |-> 0])
    /\ UNCHANGED <<full_data, stream_index, session_system_usage,
                   session_system_cost, manual_entries, budget,
                   monthly_water_limit, reference_usage,
                   manual_recommendations_cache, manual_entries_hash,
                   history, reports, call, old, ret>>

\* self.stream_index = target_idx, and advance_simulation returns
advance_simulation_write(t) ==
    /\ At(t, "cursor_write")
    /\ stream_index' = frames[t].target_idx
    /\ Return(t)
    /\ ret' = Returned(NoneValue)
    /\ UNCHANGED <<full_data, session_system_usage, session_system_cost,
                   session_hours, manual_entries, budget, monthly_water_limit,
                   reference_usage, manual_recommendations_cache,
                   manual_entries_hash, history, reports, call, old>>

\* get_current_simulation_tick up to the read in
\* self.stream_index = (self.stream_index + 1) % total_len
tick_cursor_load(t) ==
    /\ At(t, "idle")
    /\ call' = Called("get_current_simulation_tick", [now |-> NoNow])
    /\ old' = Snapshot
    /\ IF Len(full_data) < WINDOW_SIZE
       THEN /\ ret' = Returned([pair |-> FALSE,
                                records |-> Iloc(full_data, 0, Len(full_data))])
            /\ UNCHANGED frames
       ELSE /\ Goto(t, "tick_cursor_store",
                    [op |-> "tick", hours |-> 1, loaded |-> stream_index])
            /\ UNCHANGED ret
    /\ UNCHANGED <<prog, history, reports>>

\* ... and the write of that statement
tick_cursor_store(t) ==
    /\ At(t, "tick_cursor_store")
    /\ stream_index' = TickIndex(frames[t].loaded, Len(full_data))
    /\ Goto(t, "tick_window", [loaded |-> 0])
    /\ UNCHANGED <<full_data, session_system_usage, session_system_cost,
                   session_hours, manual_entries, budget, monthly_water_limit,
                   reference_usage, manual_recommendations_cache,
                   manual_entries_hash, history, reports, call, old, ret>>

\* start = self.stream_index (read again), the window, its latest point
tick_window(t, now) ==
    /\ At(t, "tick_window")
    /\ LET window == Stamped(TickRows(full_data, stream_index), now, manual_entries)
           latest_point == LatestPoint(window)
       IN Goto(t, "usage_load",
               [target_idx |-> stream_index, now |-> now,
                skipped_usage |-> latest_point.usage_liters,
                skipped_cost |-> calculate_cost(latest_point.usage_liters,
                                                latest_point.hour)])
    /\ UNCHANGED <<prog, history, reports, call, old, ret>>

\* is_cycle_end (the cursor read once more), and the tick returns
tick_return(t) ==
    /\ At(t, "tick_return")
    /\ ret' = Returned(
            [pair |-> TRUE,
             records |-> Stamped(TickRows(full_data, frames[t].target_idx),
                                 frames[t].now, manual_entries),
             is_cycle_end |-> (stream_index = Len(full_data) - 1)])
    /\ Return(t)
    /\ UNCHANGED <<prog, history, reports, call, old>>

NextConcurrent ==
    \E t \in Threads :
        \/ \E hours \in ConcurrentHours :
              /\ ServedHours + PendingHours + hours <= MaxServedHours
              /\ advance_simulation_read(t, hours)
        \/ session_usage_load(t)
        \/ session_usage_store(t)
        \/ session_cost_load(t)
        \/ session_cost_store(t)
        \/ session_hours_load(t)
        \/ session_hours_store(t)
        \/ advance_simulation_write(t)
        \/ /\ ServedHours + PendingHours + 1 <= MaxServedHours
           /\ tick_cursor_load(t)
        \/ tick_cursor_store(t)
        \/ \E now \in NowSet : tick_window(t, now)
        \/ tick_return(t)

SpecConcurrent == InitConcurrent /\ [][NextConcurrent]_vars

\* ================================================================== claims
N == Len(full_data)
SampleAt(idx) == full_data[idx + 1]          \* the sample at 0-based index idx
AdvanceDone == call.op = "advance_simulation" /\ ret.raised = ""
Hours == call.arg.hours                      \* of an advance or a window call
Cycle == call.arg.target_hours               \* of a complete_current_period call
TickDone == call.op = "get_current_simulation_tick"
CompleteDone == call.op = "complete_current_period" /\ ret.raised = ""
WindowDone == call.op = "get_simulation_window"
ResetDone == call.op = "start_new_period"

\* usage and tariff cost of the `hours` positions (c + i) mod N, i = 0..hours-1
RECURSIVE TraversedUsage(_, _)
TraversedUsage(c, hours) ==
    IF hours = 0 THEN 0
    ELSE SampleAt((c + hours - 1) % N).usage_liters + TraversedUsage(c, hours - 1)

RECURSIVE TraversedCost(_, _)
TraversedCost(c, hours) ==
    IF hours = 0 THEN 0
    ELSE LET smp == SampleAt((c + hours - 1) % N)
         IN calculate_cost(smp.usage_liters, smp.hour) + TraversedCost(c, hours - 1)

\* C1: on a non-empty series the cursor always satisfies 0 <= stream_index < N.
C1_CursorInRange == N > 0 => (0 <= stream_index /\ stream_index < N)

C1_Witness ==
    \/ /\ AdvanceDone /\ N > 0
       /\ old.stream_index + Hours >= N
       /\ stream_index < old.stream_index
    \/ /\ TickDone /\ N >= WINDOW_SIZE
       /\ old.stream_index = N - 1 /\ stream_index = 0

\* C2: advance(hours) with 0 <= hours < N adds to the session the usage of the
\* samples at c, c+1, ..., c+hours-1 (mod N), their tariff costs at each
\* sample's own hour of day, and exactly `hours` to hours_elapsed.
C2_AdvanceSums ==
    (AdvanceDone /\ Hours < N) =>
        /\ session_system_usage =
              old.session_system_usage + TraversedUsage(old.stream_index, Hours)
        /\ session_system_cost =
              old.session_system_cost + TraversedCost(old.stream_index, Hours)
        /\ session_hours = old.session_hours + Hours

C2_Witness ==
    /\ AdvanceDone /\ Hours < N
    /\ old.stream_index + Hours > N
    /\ TraversedUsage(0, stream_index) > 0
    /\ session_system_usage > old.session_system_usage + TraversedUsage(0, stream_index)
    /\ session_system_cost > UNIT_PRICE_DAY * (session_system_usage - old.session_system_usage)

\* C3: advance(hours) with hours > N counts every traversed position
\* (c + i) mod N, i = 0..hours-1, so revisited samples are added again.
C3_MultiLapSums ==
    (AdvanceDone /\ Hours > N) =>
        /\ session_system_usage =
              old.session_system_usage + TraversedUsage(old.stream_index, Hours)
        /\ session_system_cost =
              old.session_system_cost + TraversedCost(old.stream_index, Hours)

\* C4: for 1 <= hours <= N, window(hours) has exactly `hours` samples and its
\* last one is the sample at (cursor - 1) mod N.
C4_WindowEndsAtCursor ==
    (WindowDone /\ 1 <= Hours /\ Hours <= N) =>
        /\ Len(ret.value.rows) = Hours
        /\ ret.value.rows[Len(ret.value.rows)] = SampleAt((stream_index + N - 1) % N)

\* C5: every tick moves the cursor by exactly 1 modulo N and reports
\* cycle_completed exactly when the cursor after the call is N - 1.
C5_TickStep ==
    (TickDone /\ N > 0) =>
        /\ stream_index = (old.stream_index + 1) % N
        /\ ret.value.pair
        /\ ret.value.is_cycle_end = (stream_index = N - 1)

\* C6: for N >= 24 the window of a tick holds the 24 most recent samples, the
\* 24 consecutive positions that end at the cursor after the tick (the cursor
\* itself being either the last position or the one just after it).
C6_TickLookback ==
    (TickDone /\ N >= WINDOW_SIZE) =>
        \/ \A j \in 1..WINDOW_SIZE :
              ret.value.records[j].usage_liters =
                 SampleAt((stream_index + N + N - WINDOW_SIZE + j) % N).usage_liters
        \/ \A j \in 1..WINDOW_SIZE :
              ret.value.records[j].usage_liters =
                 SampleAt((stream_index + N + N - WINDOW_SIZE + j - 1) % N).usage_liters

\* C7: complete_current_period(cycle_length) advances by and returns
\* remaining = cycle_length when hours_elapsed is 0 or a multiple of the cycle,
\* cycle_length - (hours_elapsed mod cycle_length) otherwise; so
\* 1 <= remaining <= cycle_length and hours_elapsed ends a positive multiple.
C7_Expected(hours_elapsed, cycle_length) ==
    IF hours_elapsed % cycle_length = 0
    THEN cycle_length
    ELSE cycle_length - (hours_elapsed % cycle_length)

C7_CompletePeriod ==
    CompleteDone =>
        LET remaining == C7_Expected(old.session_hours, Cycle)
        IN /\ ret.value.int = remaining
           /\ session_hours = old.session_hours + remaining
           /\ stream_index = (old.stream_index + remaining) % N
           /\ 1 <= remaining /\ remaining <= Cycle
           /\ session_hours > 0
           /\ session_hours % Cycle = 0

C7_Witness ==
    \/ /\ CompleteDone /\ Cycle > 1
       /\ old.session_hours > 0 /\ old.session_hours % Cycle = 0
       /\ ret.value.int = Cycle
    \/ /\ CompleteDone
       /\ old.session_hours % Cycle > 0
       /\ ret.value.int < Cycle

\* C8: two complete_current_period(672) calls in a row from hours_elapsed = 0:
\* the first advances by 672, the second by another full 672 (not 0), leaving
\* hours_elapsed = 1344.
C8_FirstCall ==
    (CompleteDone /\ Cycle = DEFAULT_PERIOD /\ old.session_hours = 0) =>
        (ret.value.int = DEFAULT_PERIOD /\ session_hours = DEFAULT_PERIOD)

C8_SecondCall ==
    ( /\ CompleteDone /\ Cycle = DEFAULT_PERIOD /\ old.session_hours = 0
      /\ call'.op = "complete_current_period" /\ call'.arg.target_hours = DEFAULT_PERIOD )
    => ( /\ ret'.value.int = DEFAULT_PERIOD
         /\ session_hours' = 2 * DEFAULT_PERIOD
         /\ session_hours' - session_hours = DEFAULT_PERIOD )

C8_TwoPeriods == [](N > 0 => C8_FirstCall) /\ [][N > 0 => C8_SecondCall]_vars

C8_Witness ==
    /\ CompleteDone /\ Cycle = DEFAULT_PERIOD
    /\ old.session_hours = DEFAULT_PERIOD
    /\ ret.value.int = DEFAULT_PERIOD
    /\ session_hours = 2 * DEFAULT_PERIOD

\* C9: no advance, tick or complete_current_period lowers session usage,
\* session cost or hours_elapsed; only start_new_period lowers them, to zero.
C9_Monotonic ==
    /\ (AdvanceDone \/ TickDone \/ CompleteDone) =>
          /\ session_system_usage >= old.session_system_usage
          /\ session_system_cost >= old.session_system_cost
          /\ session_hours >= old.session_hours
    /\ ( \/ session_system_usage < old.session_system_usage
         \/ session_system_cost < old.session_system_cost
         \/ session_hours < old.session_hours ) =>
          /\ ResetDone
          /\ session_system_usage = 0
          /\ session_system_cost = 0
          /\ session_hours = 0

C9_Witness ==
    /\ (AdvanceDone \/ TickDone \/ CompleteDone)
    /\ old.session_system_usage > 0
    /\ session_system_usage > old.session_system_usage
    /\ session_system_cost > old.session_system_cost
    /\ session_hours > old.session_hours

\* C10: start_new_period zeroes session usage, cost and hours_elapsed and
\* leaves the manual ledger, the cursor, the budget and the water limit as
\* they were; entries recorded before the reset are still there.
C10_ResetFrame ==
    ResetDone =>
        /\ session_system_usage = 0
        /\ session_system_cost = 0
        /\ session_hours = 0
        /\ manual_entries = old.manual_entries
        /\ stream_index = old.stream_index
        /\ budget = old.budget
        /\ monthly_water_limit = old.monthly_water_limit

C10_Witness ==
    /\ ResetDone
    /\ old.session_hours > 0 /\ old.session_system_usage > 0
    /\ old.stream_index > 0
    /\ DOMAIN old.manual_entries # {}
    /\ old.budget # 500
    /\ manual_entries = old.manual_entries

\* ---- the manual ledger
AddCalled == call.op = "add_manual_entry"
AddDone == AddCalled /\ ret.raised = ""
DeleteDone == call.op = "delete_manual_entry"
\* the entries of `entries` other than the one stored under date_str
Others(entries, date_str) ==
    [d \in DOMAIN entries \ {date_str} |-> entries[d]]

\* C11: add_manual_entry(date, total, night) with night > total fails with a
\* validation error and leaves the ledger as it was, the prior entry of that
\* date included.
C11_NightOverTotalRejected ==
    (AddCalled /\ call.arg.night_amount > call.arg.amount) =>
        /\ ret.raised # ""
        /\ manual_entries = old.manual_entries

\* C12: add_manual_entry with a date string that does not parse as a calendar
\* date raises to its caller and leaves every entry of the ledger as it was.
C12_BadDateRejected ==
    (AddCalled /\ ~ParsesAsDate(call.arg.date_str)) =>
        /\ ret.raised = "ValueError"
        /\ manual_entries = old.manual_entries
        /\ call.arg.date_str \notin DOMAIN manual_entries

C12_Witness ==
    /\ AddCalled /\ ret.raised = "ValueError"
    /\ \/ ~MatchesFormat(call.arg.date_str)
       \/ MatchesFormat(call.arg.date_str) /\ ~ParsesAsDate(call.arg.date_str)
    /\ Cardinality(DOMAIN old.manual_entries) = 2
    /\ manual_entries = old.manual_entries

\* C13: after a successful add_manual_entry(d, t, n), reading the calendar
\* date of d (the key get_manual looks up: the date, zero-padded) yields
\* exactly {total: t, night: n}; no calendar date has more than one entry; and
\* the entries of all other dates are as before.
C13_RoundTrip ==
    AddDone =>
        LET date_key == Strftime(Strptime(call.arg.date_str))
        IN /\ date_key \in DOMAIN manual_entries
           /\ manual_entries[date_key] =
                 [total |-> call.arg.amount, night |-> call.arg.night_amount]
           /\ \A d1, d2 \in DOMAIN manual_entries :
                 Strptime(d1) = Strptime(d2) => d1 = d2
           /\ Others(manual_entries, call.arg.date_str)
                 = Others(old.manual_entries, call.arg.date_str)

\* C14: delete_manual_entry(date) returns False and leaves the ledger as it
\* was when the date is absent; when it is present it returns True, removes
\* exactly that entry and leaves every other entry as it was.
C14_Delete ==
    DeleteDone =>
        IF call.arg.date_str \in DOMAIN old.manual_entries
        THEN /\ ret = Returned([bool |-> TRUE])
             /\ manual_entries = Others(old.manual_entries, call.arg.date_str)
        ELSE /\ ret = Returned([bool |-> FALSE])
             /\ manual_entries = old.manual_entries

C14_Witness ==
    /\ DeleteDone
    /\ call.arg.date_str \in DOMAIN old.manual_entries
    /\ Cardinality(DOMAIN old.manual_entries) = 2
    /\ Cardinality(DOMAIN manual_entries) = 1
    /\ ret.value.bool

\* C15: after set_budget(a) the monthly water limit is a / day price;
\* set_water_limit(w) sets the limit to w and leaves the budget alone; no
\* other operation touches either, so the two stay decoupled until the next
\* set_budget, which overwrites the limit again.
C15_BudgetDone == call.op = "set_budget"
C15_LimitDone == call.op = "set_water_limit"

C15_OneWayCoupling ==
    /\ C15_BudgetDone =>
          /\ budget = call.arg.amount
          \* the price is 89705 millionths of a TL per litre
          /\ Lowest(monthly_water_limit)
                = Lowest(Frac(call.arg.amount * 1000000, 89705))
    /\ C15_LimitDone =>
          /\ Lowest(monthly_water_limit) = Frac(call.arg.amount, 1)
          /\ budget = old.budget
    /\ ~(C15_BudgetDone \/ C15_LimitDone) =>
          /\ budget = old.budget
          /\ monthly_water_limit = old.monthly_water_limit

C15_Witness ==
    /\ C15_BudgetDone
    /\ old.budget = 300
    /\ old.monthly_water_limit = Frac(20000, 1)
    /\ call.arg.amount = 500
    /\ monthly_water_limit # old.monthly_water_limit

\* ---- the tariff
CostDone == call.op = "calculate_cost"

\* C16: for every usage u and hour in 0..23, cost(u, hour) is u * night price
\* when hour >= 22 or hour < 4 and u * day price otherwise, the night price
\* being twice the day price (89705 millionths of a TL per litre); the cost is
\* linear in u and depends on nothing but (u, hour).
C16_Price(hour) == IF hour >= 22 \/ hour < 4 THEN 2 * 89705 ELSE 89705

C16_Tariff ==
    CostDone =>
        /\ ret.value.float = call.arg.usage_liters * C16_Price(call.arg.hour)
        /\ UNIT_PRICE_NIGHT = 2 * UNIT_PRICE_DAY
        /\ \A v \in 0..MaxCostUsage, k \in 0..3 :
              /\ calculate_cost(call.arg.usage_liters + v, call.arg.hour)
                    = ret.value.float + calculate_cost(v, call.arg.hour)
              /\ calculate_cost(k * call.arg.usage_liters, call.arg.hour)
                    = k * ret.value.float

C16_Witness ==
    /\ CostDone
    /\ call.arg.usage_liters = 3 /\ call.arg.hour = 3
    /\ ret.value.float = 538230
    /\ budget = 300 /\ session_system_cost > 0

\* ---- the allocation solver
SolveDone == call.op = "solve_daily_water_optimization"
DailyCap == call.arg.daily_water_limit
DailyBudget == call.arg.daily_budget
DayPrice == call.arg.day_price
NightPrice == call.arg.night_price
FracSame(a, b) == Lowest(a) = Lowest(b)
\* day_price * x1 + night_price * x2
LPCost(x1, x2) == FracAdd(FracMul(DayPrice, x1), FracMul(NightPrice, x2))
LPFeasible(x1, x2) ==
    /\ FracLeq(Zero, x1) /\ FracLeq(Zero, x2)
    /\ FracLeq(FracAdd(x1, x2), DailyCap)
    /\ FracLeq(LPCost(x1, x2), DailyBudget)
LPPoints == { <<x1, x2>> : x1, x2 \in {Zero, Frac(1, 10), Frac(500, 1)} }

\* C17: the solver's result is cost-minimizing: the returned (x1, x2) is
\* feasible (x1 + x2 <= daily_cap, day_price*x1 + night_price*x2 <=
\* daily_budget, x1, x2 >= 0) and no other feasible (x1', x2') has a strictly
\* lower cost day_price*x1' + night_price*x2'.  (Stated here for caps and
\* budgets >= 0 and positive prices, where feasible points exist.)
C17_CostMinimizing ==
    ( /\ SolveDone
      /\ FracLeq(Zero, DailyCap) /\ FracLeq(Zero, DailyBudget)
      /\ FracLt(Zero, DayPrice) /\ FracLt(Zero, NightPrice) ) =>
        /\ LPFeasible(ret.value.x_day, ret.value.x_night)
        /\ \A p \in LPPoints :
              LPFeasible(p[1], p[2]) =>
                 ~FracLt(LPCost(p[1], p[2]),
                         LPCost(ret.value.x_day, ret.value.x_night))

\* C18 (as claimed): for every input the solver returns x2 = 0; when
\* day_price > 0, x1 = daily_cap if daily_budget >= day_price*daily_cap and
\* daily_budget/day_price otherwise, with cost = x1*day_price; when
\* day_price <= 0 the result is (0, 0, 0).
C18_X1(cap, bud) ==
    IF FracLeq(FracMul(DayPrice, cap), bud) THEN cap ELSE FracDiv(bud, DayPrice)

C18_ClosedForm ==
    SolveDone =>
        /\ FracSame(ret.value.x_night, Zero)
        /\ IF FracLt(Zero, DayPrice)
           THEN /\ FracSame(ret.value.x_day, C18_X1(DailyCap, DailyBudget))
                /\ FracSame(ret.value.min_cost,
                            FracMul(C18_X1(DailyCap, DailyBudget), DayPrice))
           ELSE /\ FracSame(ret.value.x_day, Zero)
                /\ FracSame(ret.value.min_cost, Zero)

\* C18 (amended): with daily_cap and daily_budget first raised to 0 when
\* negative, the solver returns x_night = 0; when day_price > 0, x_day is x1
\* rounded to 1 decimal, x1 being daily_cap if daily_budget >=
\* day_price*daily_cap and daily_budget/day_price otherwise, and min_cost is
\* x1*day_price (of the unrounded x1) rounded to 2 decimals; when
\* day_price <= 0 the result is (0, 0, 0).  Prices 0.09/0.18 and cap 1000
\* give (1000.0, 0.0, 90.0) for budget 150 and (500.0, 0.0, 45.0) for 45.
C18_Example(bud, x_day, min_cost) ==
    ( /\ DailyCap = Frac(1000, 1) /\ DailyBudget = Frac(bud, 1)
      /\ DayPrice = Frac(9, 100) /\ NightPrice = Frac(18, 100) ) =>
        /\ ret.value.x_day = Frac(x_day * 10, 10)
        /\ ret.value.x_night = Frac(0, 10)
        /\ ret.value.min_cost = Frac(min_cost * 100, 100)

C18_ClosedFormRounded ==
    SolveDone =>
        LET x1 == C18_X1(FracMax(Zero, DailyCap), FracMax(Zero, DailyBudget))
        IN /\ FracSame(ret.value.x_night, Zero)
           /\ IF FracLt(Zero, DayPrice)
              THEN /\ ret.value.x_day \in Round(x1, 1)
                   /\ ret.value.min_cost \in Round(FracMul(x1, DayPrice), 2)
              ELSE /\ FracSame(ret.value.x_day, Zero)
                   /\ FracSame(ret.value.min_cost, Zero)
           /\ C18_Example(150, 1000, 90)
           /\ C18_Example(45, 500, 45)

C18_Witness ==
    /\ SolveDone
    /\ DailyCap = Frac(1000, 1) /\ DailyBudget = Frac(50, 3)
    /\ DayPrice = Frac(17941, 200000)
    /\ ret.value.x_day = Frac(1858, 10)
    /\ ret.value.min_cost = Frac(1667, 100)
    /\ ~FracSame(ret.value.x_day, FracDiv(DailyBudget, DayPrice))

\* C19: for daily_cap >= 0 and daily_budget >= 0 and any prices, the values
\* the solver returns (after rounding to 1 and 2 decimals) are non-negative
\* and satisfy x_day + x_night <= daily_cap and min_cost <= daily_budget.
C19_RoundedFeasible ==
    (SolveDone /\ FracLeq(Zero, DailyCap) /\ FracLeq(Zero, DailyBudget)) =>
        /\ FracLeq(Zero, ret.value.x_day)
        /\ FracLeq(Zero, ret.value.x_night)
        /\ FracLeq(Zero, ret.value.min_cost)
        /\ FracLeq(FracAdd(ret.value.x_day, ret.value.x_night), DailyCap)
        /\ FracLeq(ret.value.min_cost, DailyBudget)

\* ---- the strategy score
StrategyDone == call.op = "calculate_strategy"
\* the two ratios of the call: projected usage over the water limit, projected
\* cost over the budget, 1.0 when the limit (or the budget) is <= 0
UsageRatio ==
    IF FracLeq(call.arg.water_limit, Zero) THEN One
    ELSE FracDiv(FracAdd(ProjectedUsage(call.arg.system_stats),
                         ProjectedUsage(call.arg.manual_stats)),
                 call.arg.water_limit)
CostRatio ==
    IF FracLeq(call.arg.budget, Zero) THEN One
    ELSE FracDiv(FracAdd(ProjectedCost(call.arg.system_stats),
                         ProjectedCost(call.arg.manual_stats)),
                 call.arg.budget)
LargerRatio == FracMax(UsageRatio, CostRatio)
\* 100 - (max(usage_ratio, cost_ratio) - 1.0) * 100, clamped to [0, 100]
ClampedScore ==
    FracMax(Zero,
            FracMin(Hundred,
                    FracSub(Hundred, FracMul(FracSub(LargerRatio, One), Hundred))))

\* C20 (as claimed): the strategy score equals 100 - (max(usage_ratio,
\* cost_ratio) - 1.0)*100 clamped to [0, 100], a ratio being 1.0 when its
\* limit is <= 0; so it is within [0, 100], is 100 whenever both ratios are
\* <= 1.0, and drops by 1 point per 1% that the larger ratio exceeds 1.0.
C20_Score ==
    StrategyDone =>
        /\ FracSame(ret.value.score, ClampedScore)
        /\ FracLeq(Zero, ret.value.score) /\ FracLeq(ret.value.score, Hundred)
        /\ FracLeq(LargerRatio, One) => FracSame(ret.value.score, Hundred)
        /\ (FracLt(One, LargerRatio) /\ FracLeq(LargerRatio, Frac(2, 1))) =>
              FracSame(FracSub(Hundred, ret.value.score),
                       FracMul(FracSub(LargerRatio, One), Hundred))

\* C20 (amended): the returned score is that clamped value rounded to 1
\* decimal; so it is within [0, 100], is 100 whenever both ratios are <= 1.0,
\* and, while the larger ratio is between 1.0 and 2.0, is 100 less 1 point
\* per 1% of excess, to the nearest tenth of a point.
C20_ScoreRounded ==
    StrategyDone =>
        /\ ret.value.score \in Round(ClampedScore, 1)
        /\ FracLeq(Zero, ret.value.score) /\ FracLeq(ret.value.score, Hundred)
        /\ FracLeq(LargerRatio, One) => FracSame(ret.value.score, Hundred)
        /\ (FracLt(One, LargerRatio) /\ FracLeq(LargerRatio, Frac(2, 1))) =>
              ret.value.score \in
                 Round(FracSub(Hundred,
                               FracMul(FracSub(LargerRatio, One), Hundred)), 1)

C20_Witness ==
    /\ StrategyDone
    /\ UsageRatio = Frac(6173, 5000)          \* 1.2346
    /\ FracLt(CostRatio, UsageRatio)
    /\ ret.value.score = Frac(765, 10)
    /\ ~FracSame(ret.value.score, ClampedScore)

\* the documented points of the scorer, with the status named for a largest
\* ratio of exactly 1.2
C21_Points(status_at_80) ==
    StrategyDone =>
        /\ (FracSame(UsageRatio, One) /\ FracSame(CostRatio, Frac(4, 5))) =>
              FracSame(ret.value.score, Hundred)
        /\ FracSame(LargerRatio, Frac(6, 5)) =>
              /\ FracSame(ret.value.score, Frac(80, 1))
              /\ ret.value.status = status_at_80
        /\ FracSame(LargerRatio, Frac(8, 5)) =>
              /\ FracSame(ret.value.score, Frac(40, 1))
              /\ ret.value.status = "Kritik Esik"

\* C21 (as claimed): usage_ratio 1.0 with cost_ratio 0.8 gives score 100; a
\* largest ratio of exactly 1.2 gives score 80 and status "Dengeli"
\* (Balanced); a largest ratio of 1.6 gives score 40 and status "Kritik Esik"
\* (Critical).
C21_StatusPoints == C21_Points("Dengeli")

\* C21 (amended): usage_ratio 1.0 with cost_ratio 0.8 gives score 100; a
\* largest ratio of exactly 1.2 gives score 80 and status "Dikkatli Olmali"
\* (Needs Attention), "Dengeli" needing a score above 80; a largest ratio of
\* 1.6 gives score 40 and status "Kritik Esik" (Critical).
C21_StatusPointsStrict == C21_Points("Dikkatli Olmali")

C21_Witness ==
    /\ StrategyDone
    /\ FracSame(LargerRatio, Frac(6, 5))
    /\ ret.value.score = Frac(800, 10)
    /\ ret.value.status = "Dikkatli Olmali"

\* ---- the series operations, continued
AdvanceCalled == call.op = "advance_simulation"
CompleteCalled == call.op = "complete_current_period"

\* C22: on a zero-length series window returns an empty sequence, advance and
\* complete_current_period raise no error and leave the cursor and the
\* session as they were, and the projections of the (empty) window are zero.
C22_EmptySeries ==
    N = 0 =>
        /\ WindowDone =>
              /\ ret.value.rows = <<>>
              /\ SystemProjectedUsage(ret.value.rows) = Zero
              /\ SystemProjectedCost(ret.value.rows) = Zero
        /\ (AdvanceCalled \/ CompleteCalled) =>
              /\ ret.raised = ""
              /\ stream_index = old.stream_index
              /\ session_system_usage = old.session_system_usage
              /\ session_system_cost = old.session_system_cost
              /\ session_hours = old.session_hours

\* C23: advance(h) sets the cursor to (cursor + h) mod N; so advance(h)
\* followed by advance(N - (h mod N)) returns the cursor to where it was
\* before the first of the two.
C23_Cursor == AdvanceDone => stream_index = (old.stream_index + Hours) % N

C23_Back ==
    ( /\ AdvanceDone
      /\ call'.op = "advance_simulation" /\ ret'.raised = ""
      /\ call'.arg.hours = N - (Hours % N) )
    => stream_index' = old.stream_index

C23_RoundTrip == []C23_Cursor /\ [][C23_Back]_vars

C23_Witness ==
    /\ AdvanceDone /\ N = 3
    /\ Hours = 2 /\ old.stream_index = 1 /\ old.session_hours = 1
    /\ old.session_system_usage = SampleAt(0).usage_liters
    /\ stream_index = 0

\* C24: when hours < N and cursor < hours (the window wraps), window(hours)
\* returns first the tail samples at indices N-(hours-cursor) .. N-1 and then
\* the head samples at indices 0 .. cursor-1, each part in series order.
C24_WrappedWindow ==
    (WindowDone /\ Hours < N /\ stream_index < Hours) =>
        LET wrapped == Hours - stream_index
        IN ret.value.rows =
              [i \in 1..Hours |->
                  IF i <= wrapped
                  THEN SampleAt(N - wrapped + i - 1)
                  ELSE SampleAt(i - wrapped - 1)]

C24_Witness ==
    /\ WindowDone /\ N = 3 /\ Hours = 2 /\ stream_index = 1
    /\ ret.value.rows = <<SampleAt(2), SampleAt(0)>>
    /\ SampleAt(2).usage_liters # SampleAt(0).usage_liters

\* C25: window(hours) is a pure read: it changes neither the cursor, the
\* session totals nor the stored series, and a call that follows a call with
\* the same hours, nothing in between, returns the identical result.
C25_Frame ==
    WindowDone =>
        /\ stream_index = old.stream_index
        /\ session_system_usage = old.session_system_usage
        /\ session_system_cost = old.session_system_cost
        /\ session_hours = old.session_hours

C25_Again ==
    call'.op = "get_simulation_window" =>
        /\ full_data' = full_data
        /\ (WindowDone /\ call'.arg.hours = Hours) => ret' = ret

C25_PureRead == []C25_Frame /\ [][C25_Again]_vars

C25_Witness ==
    /\ WindowDone /\ N = 3 /\ Hours = 2
    /\ stream_index = 2 /\ session_hours = 5 /\ session_system_usage > 0
    /\ ret.value.rows = <<SampleAt(0), SampleAt(1)>>

\* C27: on a series of N >= 24 samples one tick changes the cursor, the
\* session usage, the session cost and hours_elapsed by exactly what
\* advance(1) would from the same state: it adds the usage of the sample the
\* cursor crosses, priced at that sample's own hour of day.
C27_TickAsAdvance ==
    (TickDone /\ N >= WINDOW_SIZE) =>
        /\ stream_index = TargetIdx(old.stream_index, 1, N)
        /\ session_system_usage =
              old.session_system_usage + TraversedUsage(old.stream_index, 1)
        /\ session_system_cost =
              old.session_system_cost + TraversedCost(old.stream_index, 1)
        /\ session_hours = old.session_hours + 1

\* ---- the store, continued
\* C28: in every reachable state, the initial one included, reference_usage
\* * 24 * 30 equals monthly_water_limit, so that the water limit
\* calculate_period_stats hands to the scorer (daily_ref * 30.0, daily_ref
\* being reference_usage * 24.0) is the store's monthly water limit.
C28_ReferenceMatchesLimit ==
    FracSame(FracMul(reference_usage, Frac(24 * 30, 1)), monthly_water_limit)

\* C29: the manual recommendations cache is never stale: what
\* get_cached_manual_recommendations returns is the report of the ledger,
\* the budget and the water limit as they are at the call, so that after
\* add_manual_entry, delete_manual_entry, set_budget or set_water_limit the
\* report is made anew, and with no such change the cached one is returned.
CachedDone == call.op = "get_cached_manual_recommendations"

C29_CacheFresh ==
    CachedDone =>
        /\ ret.value = ManualReport(manual_entries, budget, monthly_water_limit)
        /\ manual_recommendations_cache = [present |-> TRUE, report |-> ret.value]

\* ---- the tips of a report
TipsDone == call.op = "_pick_diverse_tips"
NoDuplicates(seq) == \A i, j \in 1..Len(seq) : seq[i] = seq[j] => i = j

\* C30: in every sequence of reports, _pick_diverse_tips returns k = 2
\* distinct tips, none of them in the context's recent-use history (at most
\* 14 ids, most recent first) as it is at the pick, and then puts them at the
\* front of that history, which never exceeds 14 ids and never holds
\* duplicates.
C30_AntiRepetition ==
    /\ \A context \in DOMAIN history :
          /\ Len(history[context]) <= 14
          /\ NoDuplicates(history[context])
    /\ TipsDone =>
          LET tips == ret.value.tips
              context == call.arg.context
          IN /\ Len(tips) = 2
             /\ tips[1] # tips[2]
             /\ \A i \in 1..2 :
                   tip_id(tips[i]) \notin Range(old.history[context])
             /\ Len(history[context]) >= 2
             /\ history[context][1] = tip_id(tips[1])
             /\ history[context][2] = tip_id(tips[2])

C30_Witness ==
    /\ TipsDone
    /\ Len(old.history[call.arg.context]) = 14
    /\ Len(history[call.arg.context]) = 14
    /\ old.history[call.arg.context][13] \notin Range(history[call.arg.context])
    /\ history[call.arg.context][3] = old.history[call.arg.context][1]
    /\ tip_id(ret.value.tips[1]) \notin Range(old.history[call.arg.context])

\* ---- requests served at the same time
Quiescent == \A t \in Threads : frames[t].pc = "idle"

\* C26: advance is atomic with respect to the other engine operations: in
\* every interleaving of advance and tick requests served at the same time,
\* once they have all returned the cursor is (initial cursor + total hours
\* advanced) mod N and hours_elapsed is the total of the hours advanced (no
\* update is lost).  The run starts at cursor 0 with an empty session.
C26_AtomicAdvance ==
    Quiescent =>
        /\ stream_index = (0 + ServedHours) % N
        /\ session_hours = ServedHours

====
